---- MODULE Spec2Model ----
(***************************************************************************)
(* A model of the streaming HTTP server: the growable byte buffer          *)
(* (dynbuf.ts), the framer and request parser, the body readers (http.ts)  *)
(* and the per-connection serve loop with its error conversion.  Bytes are *)
(* one-character strings, buffers are sequences of bytes, and buffer       *)
(* offsets are zero-based as in the source (storage index i is data[i+1]). *)
(***************************************************************************)
EXTENDS Integers, Sequences, FiniteSets, TLC

(***************************************************************************)
(* Bytes and byte strings                                                  *)
(***************************************************************************)
CR == "\r"
LF == "\n"
SP == " "
NUL == "\\0"

CRLF == <<CR, LF>>
CRLFCRLF == <<CR, LF, CR, LF>>

StrGET ==
    <<"G", "E", "T">>
StrHEAD ==
    <<"H", "E", "A", "D">>
StrPOST ==
    <<"P", "O", "S", "T">>
StrEcho ==
    <<"/", "e", "c", "h", "o">>
StrOther ==
    <<"/", "x">>
StrHttp10 ==
    <<"H", "T", "T", "P", "/", "1", ".", "0">>
StrHttp11 ==
    <<"H", "T", "T", "P", "/", "1", ".", "1">>
StrChunked ==
    <<"c", "h", "u", "n", "k", "e", "d">>
KeyContentLength ==
    <<"C", "o", "n", "t", "e", "n", "t", "-", "L", "e", "n", "g", "t", "h">>
KeyTransferEncoding ==
    <<"T", "r", "a", "n", "s", "f", "e", "r", "-", "E", "n", "c", "o", "d", "i", "n", "g">>
StrHelloWorld ==
    <<"H", "e", "l", "l", "o", " ", "W", "o", "r", "l", "d", "!", "\n">>
HdrServer ==
    <<"S", "e", "r", "v", "e", "r", ":", " ", "M", "y", " ", "f", "i", "r", "s", "t", " ", "H", "T", "T", "P", " ", "s", "e", "r", "v", "e", "r">>
StrContentLengthColon ==
    <<"C", "o", "n", "t", "e", "n", "t", "-", "L", "e", "n", "g", "t", "h", ":", " ">>
StrStatusPrefix ==
    <<"H", "T", "T", "P", "/", "1", ".", "1", " ">>
MsgUnexpectedEOF ==
    <<"U", "n", "e", "x", "p", "e", "c", "t", "e", "d", " ", "E", "O", "F">>
MsgInvalidContentLength ==
    <<"i", "n", "v", "a", "l", "i", "d", " ", "C", "o", "n", "t", "e", "n", "t", "-", "L", "e", "n", "g", "t", "h", " ", "h", "e", "a", "d", "e", "r">>
MsgBodyNotAllowed ==
    <<"b", "o", "d", "y", " ", "n", "o", "t", " ", "a", "l", "l", "o", "w", "e", "d", " ", "f", "o", "r", " ", "$", "{", "r", "e", "q", ".", "m", "e", "t", "h", "o", "d", "}", " ", "m", "e", "t", "h", "o", "d">>
MsgChunkedNotImplemented ==
    <<"c", "h", "u", "n", "k", "e", "d", " ", "t", "r", "a", "n", "s", "f", "e", "r", " ", "e", "n", "c", "o", "d", "i", "n", "g", " ", "n", "o", "t", " ", "i", "m", "p", "l", "e", "m", "e", "n", "t", "e", "d">>
MsgUnknownLength ==
    <<"u", "n", "k", "n", "o", "w", "n", " ", "b", "o", "d", "y", " ", "l", "e", "n", "g", "t", "h", " ", "n", "o", "t", " ", "i", "m", "p", "l", "e", "m", "e", "n", "t", "e", "d">>
MsgEOFInBody ==
    <<"u", "n", "e", "x", "p", "e", "c", "t", "e", "d", " ", "E", "O", "F", " ", "w", "h", "i", "l", "e", " ", "r", "e", "a", "d", "i", "n", "g", " ", "b", "o", "d", "y">>
MsgInvalidRequestLine ==
    <<"i", "n", "v", "a", "l", "i", "d", " ", "r", "e", "q", "u", "e", "s", "t", " ", "l", "i", "n", "e">>
MsgInvalidVersion ==
    <<"i", "n", "v", "a", "l", "i", "d", " ", "H", "T", "T", "P", " ", "v", "e", "r", "s", "i", "o", "n">>
MsgInvalidMethod ==
    <<"i", "n", "v", "a", "l", "i", "d", " ", "H", "T", "T", "P", " ", "m", "e", "t", "h", "o", "d">>
MsgInvalidURI ==
    <<"i", "n", "v", "a", "l", "i", "d", " ", "r", "e", "q", "u", "e", "s", "t", " ", "U", "R", "I">>

Digits == <<"0", "1", "2", "3", "4", "5", "6", "7", "8", "9">>
UpperCase ==
    <<"A", "B", "C", "D", "E", "F", "G", "H", "I", "J", "K", "L", "M",
      "N", "O", "P", "Q", "R", "S", "T", "U", "V", "W", "X", "Y", "Z">>
LowerCase ==
    <<"a", "b", "c", "d", "e", "f", "g", "h", "i", "j", "k", "l", "m",
      "n", "o", "p", "q", "r", "s", "t", "u", "v", "w", "x", "y", "z">>
WhiteSpace == {SP, "\t", CR, LF}

Range(s) == {s[i] : i \in 1..Len(s)}
Min(a, b) == IF a < b THEN a ELSE b
Max(a, b) == IF a > b THEN a ELSE b
IsDigit(c) == c \in Range(Digits)
DigitVal(c) == (CHOOSE i \in 1..10 : Digits[i] = c) - 1

\* String.prototype.toLowerCase on one character
LowerChar(c) ==
    IF c \in Range(UpperCase)
    THEN LowerCase[CHOOSE i \in 1..26 : UpperCase[i] = c]
    ELSE c
ToLowerCase(s) == [i \in 1..Len(s) |-> LowerChar(s[i])]

\* String.prototype.trim
RECURSIVE TrimLeft(_)
TrimLeft(s) ==
    IF s # <<>> /\ Head(s) \in WhiteSpace THEN TrimLeft(Tail(s)) ELSE s
RECURSIVE TrimRight(_)
TrimRight(s) ==
    IF s # <<>> /\ s[Len(s)] \in WhiteSpace
    THEN TrimRight(SubSeq(s, 1, Len(s) - 1)) ELSE s
Trim(s) == TrimRight(TrimLeft(s))

\* Number to decimal text, as in a template literal `${n}` (n >= 0)
RECURSIVE NumberToString(_)
NumberToString(n) ==
    IF n < 10 THEN <<Digits[n + 1]>>
    ELSE NumberToString(n \div 10) \o <<Digits[(n % 10) + 1]>>

\* parseInt(s, 10): skips leading white space, takes an optional sign and
\* the longest prefix of decimal digits; NaN when there is no digit.
RECURSIVE DigitPrefixValue(_, _)
DigitPrefixValue(s, acc) ==
    IF s # <<>> /\ IsDigit(Head(s))
    THEN DigitPrefixValue(Tail(s), 10 * acc + DigitVal(Head(s)))
    ELSE acc
parseInt(str) ==
    LET t == TrimLeft(str)
        neg == t # <<>> /\ Head(t) = "-"
        signed == t # <<>> /\ Head(t) \in {"-", "+"}
        u == IF signed THEN Tail(t) ELSE t
    IN  IF u = <<>> \/ ~IsDigit(Head(u))
        THEN [nan |-> TRUE, value |-> 0]
        ELSE [nan |-> FALSE,
              value |-> IF neg THEN 0 - DigitPrefixValue(u, 0)
                        ELSE DigitPrefixValue(u, 0)]

(***************************************************************************)
(* Buffer primitives of the runtime                                        *)
(***************************************************************************)
\* Buffer.alloc(n): zero-filled storage
Alloc(n) == [i \in 1..n |-> NUL]

\* buf.subarray(start, end): both ends clamped to the storage, empty when
\* end <= start
subarray(s, start, end) ==
    LET a == Min(start, Len(s))
        b == Min(end, Len(s))
    IN  IF b <= a THEN <<>> ELSE SubSeq(s, a + 1, b)

\* source.copy(target, targetStart) for an already sliced source: bytes that
\* do not fit into the target are dropped
CopyInto(target, targetStart, src) ==
    [i \in 1..Len(target) |->
        IF i > targetStart /\ i <= targetStart + Len(src)
        THEN src[i - targetStart] ELSE target[i]]

\* buf.indexOf(pattern): zero-based offset of the first match, or -1
indexOf(s, pat) ==
    LET hits == {i \in 0..(Len(s) - Len(pat)) :
                    \A j \in 1..Len(pat) : s[i + j] = pat[j]}
    IN  IF hits = {} THEN -1 ELSE CHOOSE i \in hits : \A k \in hits : i <= k

(***************************************************************************)
(* dynbuf.ts: the growable byte buffer                                     *)
(***************************************************************************)
kMaxHeaderLength == 8 * 1024
MinCapacity == 32

DynBuf(data, length, headPtr) ==
    [data |-> data, length |-> length, headPtr |-> headPtr]

\* the live window as the framer slices it
view(buf) == subarray(buf.data, buf.headPtr, buf.headPtr + buf.length)

\* while (cap < newLength) cap *= 2
RECURSIVE GrowCap(_, _)
GrowCap(cap, newLength) ==
    IF cap < newLength THEN GrowCap(cap * 2, newLength) ELSE cap

bufPush(buf, data) ==
    LET newLength == buf.length + Len(data)
        cap == GrowCap(Max(newLength, MinCapacity), newLength)
        b == IF Len(buf.data) < newLength
             THEN DynBuf(CopyInto(Alloc(cap), 0, view(buf)), buf.length, 0)
             ELSE buf
    IN  DynBuf(CopyInto(b.data, b.length + b.headPtr, data),
               newLength, b.headPtr)

\* bufPop returns [fault, buf].  The compacting copy names a source offset;
\* an offset beyond the storage is a RangeError of Buffer.copy, except that
\* with nothing to copy some runtimes return before the range check (lax).
bufPop_noCopy(buf, length, lax) ==
    LET len == buf.length - length
        head == buf.headPtr + length
        cap == Len(buf.data)
    IN  IF 2 * head > cap
        THEN IF head > cap /\ (len > 0 \/ ~lax)
             THEN [fault |-> TRUE, buf |-> DynBuf(buf.data, len, head)]
             ELSE [fault |-> FALSE, buf |-> DynBuf(buf.data, len, 0)]
        ELSE [fault |-> FALSE, buf |-> DynBuf(buf.data, len, head)]
bufPop(buf, length, lax) ==
    LET len == buf.length - length
        head == buf.headPtr + length
        cap == Len(buf.data)
    IN  IF 2 * head > cap
        THEN IF head > cap /\ (len > 0 \/ ~lax)
             THEN [fault |-> TRUE, buf |-> DynBuf(buf.data, len, head)]
             ELSE [fault |-> FALSE,
                   buf |-> DynBuf(CopyInto(buf.data, 0,
                                      subarray(buf.data, head, len + head)),
                                  len, 0)]
        ELSE [fault |-> FALSE, buf |-> DynBuf(buf.data, len, head)]

(***************************************************************************)
(* http.ts: errors, request parsing, header lookup                         *)
(***************************************************************************)
HTTPError(code, message) ==
    [kind |-> "HTTPError", code |-> code, message |-> message]
\* any exception that is not an HTTPError (TypeError, RangeError, I/O error)
OtherError(name) == [kind |-> name, code |-> 0, message |-> <<>>]
NoError == [kind |-> "none", code |-> 0, message |-> <<>>]

\* lines of a header block, split at CR LF
RECURSIVE splitLinesFrom(_, _, _, _)
splitLinesFrom(buf, i, start, lines) ==
    IF i >= Len(buf)
    THEN IF start < Len(buf)
         THEN Append(lines, subarray(buf, start, Len(buf)))
         ELSE lines
    ELSE IF buf[i + 1] = CR /\ i + 1 < Len(buf) /\ buf[i + 2] = LF
         THEN splitLinesFrom(buf, i + 2, i + 2,
                             Append(lines, subarray(buf, start, i)))
         ELSE splitLinesFrom(buf, i + 1, start, lines)
splitLines(buf) == splitLinesFrom(buf, 0, 0, <<>>)

\* String.prototype.split(' ')
RECURSIVE split(_, _)
split(s, sep) ==
    LET i == indexOf(s, <<sep>>)
    IN  IF i < 0 THEN <<s>>
        ELSE <<SubSeq(s, 1, i)>> \o split(SubSeq(s, i + 2, Len(s)), sep)

\* /^HTTP\/\d\.\d$/
IsVersion(v) ==
    /\ Len(v) = 8
    /\ SubSeq(v, 1, 5) = <<"H", "T", "T", "P", "/">>
    /\ IsDigit(v[6]) /\ v[7] = "." /\ IsDigit(v[8])
\* /^[A-Z]+$/
IsMethod(m) == m # <<>> /\ Range(m) \subseteq Range(UpperCase)

parseRequestLine(line) ==
    LET parts == split(line, SP)
        fail(message) == [err |-> HTTPError(400, message),
                          method |-> <<>>, uri |-> <<>>, version |-> <<>>]
    IN  IF Len(parts) # 3 THEN fail(MsgInvalidRequestLine)
        ELSE IF ~IsVersion(parts[3]) THEN fail(MsgInvalidVersion)
        ELSE IF ~IsMethod(parts[1]) THEN fail(MsgInvalidMethod)
        ELSE IF parts[2] = <<>> \/ parts[2][1] # "/" THEN fail(MsgInvalidURI)
        ELSE [err |-> NoError, method |-> parts[1], uri |-> parts[2],
              version |-> parts[3]]

HTTP_Request(method, uri, version, headers) ==
    [method |-> method, uri |-> uri, version |-> version, headers |-> headers]
NoRequest == HTTP_Request(<<>>, <<>>, <<>>, <<>>)

\* every line after the request line becomes a header, the empty line of
\* the terminator included
parseHTTPReq(buf) ==
    LET lines == splitLines(buf)
        rl == parseRequestLine(lines[1])
    IN  [err |-> rl.err,
         msg |-> HTTP_Request(rl.method, rl.uri, rl.version, Tail(lines))]

\* cutMessage returns [kind, msg, err, buf] with kind "null" (incomplete),
\* "msg", or "throw".  Line 32 returns the result of calling HttpError, a
\* name this program never defines: what leaves the framer there is an
\* exception that is not an HTTPError and carries no status.
cutMessage(buf, lax) ==
    LET index == indexOf(view(buf), CRLFCRLF)
        parsed == parseHTTPReq(
                     subarray(buf.data, buf.headPtr, buf.headPtr + index + 4))
        popped == bufPop(buf, index + 4, lax)
        result(kind, msg, err, b) ==
            [kind |-> kind, msg |-> msg, err |-> err, buf |-> b]
    IN  IF index < 0
        THEN IF buf.length > kMaxHeaderLength
             THEN result("throw", NoRequest, OtherError("ReferenceError"), buf)
             ELSE result("null", NoRequest, NoError, buf)
        ELSE IF parsed.err # NoError
             THEN result("throw", NoRequest, parsed.err, buf)
        ELSE IF popped.fault
             THEN result("throw", NoRequest, OtherError("RangeError"),
                         popped.buf)
        ELSE result("msg", parsed.msg, NoError, popped.buf)

\* fieldGet returns [found, value]; value is everything after the first
\* colon of the first header whose trimmed, lower-cased name matches
fieldGet(headers, key) ==
    LET targetKey == ToLowerCase(key)
        colonIndex(h) == indexOf(h, <<":">>)
        matches(h) ==
            /\ colonIndex(h) >= 0
            /\ ToLowerCase(Trim(subarray(h, 0, colonIndex(h)))) = targetKey
        hits == {i \in 1..Len(headers) : matches(headers[i])}
        first == CHOOSE i \in hits : \A k \in hits : i <= k
    IN  IF hits = {} THEN [found |-> FALSE, value |-> <<>>]
        ELSE [found |-> TRUE,
              value |-> subarray(headers[first],
                                 colonIndex(headers[first]) + 1,
                                 Len(headers[first]))]

(***************************************************************************)
(* http.ts: body readers                                                   *)
(***************************************************************************)
bodyAllowed_getOnly(method) == ~(method = StrGET)
bodyAllowed(method) == ~(method = StrGET \/ method = StrHEAD)

isChunked(headers) ==
    LET te == fieldGet(headers, KeyTransferEncoding)
    IN  te.found /\ te.value = StrChunked

\* readerFromReq returns [err, length]: err = NoError means a reader from
\* readerFromConnLength with that many bytes remaining
readerFromReq_emptyBody(req) ==
    LET contentLength == fieldGet(req.headers, KeyContentLength)
        parsed == parseInt(contentLength.value)
        bodyLen0 == IF contentLength.found THEN parsed.value ELSE -1
        allowed == bodyAllowed(req.method)
        chunked == isChunked(req.headers)
        bodyLen == IF ~allowed THEN 0 ELSE bodyLen0
        fail(code, message) == [err |-> HTTPError(code, message), length |-> 0]
    IN  IF contentLength.found /\ (parsed.nan \/ parsed.value < 0)
        THEN fail(400, MsgInvalidContentLength)
        ELSE IF ~allowed /\ (bodyLen0 > 0 \/ chunked)
        THEN fail(400, MsgBodyNotAllowed)
        ELSE IF bodyLen > 0
        THEN [err |-> NoError, length |-> bodyLen]
        ELSE IF chunked
        THEN fail(501, MsgChunkedNotImplemented)
        ELSE IF bodyLen = 0
        THEN [err |-> NoError, length |-> 0]
        ELSE fail(501, MsgUnknownLength)

readerFromReq(req) ==
    LET contentLength == fieldGet(req.headers, KeyContentLength)
        parsed == parseInt(contentLength.value)
        bodyLen0 == IF contentLength.found THEN parsed.value ELSE -1
        allowed == bodyAllowed(req.method)
        chunked == isChunked(req.headers)
        bodyLen == IF ~allowed THEN 0 ELSE bodyLen0
        fail(code, message) == [err |-> HTTPError(code, message), length |-> 0]
    IN  IF contentLength.found /\ (parsed.nan \/ parsed.value < 0)
        THEN fail(400, MsgInvalidContentLength)
        ELSE IF ~allowed /\ (bodyLen0 > 0 \/ chunked)
        THEN fail(400, MsgBodyNotAllowed)
        ELSE IF bodyLen > 0
        THEN [err |-> NoError, length |-> bodyLen]
        ELSE IF chunked
        THEN fail(501, MsgChunkedNotImplemented)
        ELSE fail(501, MsgUnknownLength)

\* One pull on the reader of readerFromConnLength.  data is what soRead
\* delivers when the pull reads from the transport (needsRead).  Returns
\* [kind, data, err, buf, remaining]; the chunk is a view of the storage
\* from headPtr to the offset `consume`, seen by the caller after bufPop.
needsRead_readAhead(buf, remaining) == remaining # 0
needsRead(buf, remaining) == remaining # 0 /\ buf.length = 0

readConn(buf, remaining, data, lax) ==
    LET pushed == IF buf.length = 0 THEN bufPush(buf, data) ELSE buf
        consume == Min(remaining, pushed.length)
        popped == bufPop(pushed, consume, lax)
        result(kind, d, err, b, r) ==
            [kind |-> kind, data |-> d, err |-> err, buf |-> b,
             remaining |-> r]
    IN  IF remaining = 0
        THEN result("data", <<>>, NoError, buf, remaining)
        ELSE IF buf.length = 0 /\ data = <<>>
        THEN result("throw", <<>>, HTTPError(400, MsgEOFInBody), buf,
                    remaining)
        ELSE IF popped.fault
        THEN result("throw", <<>>, OtherError("RangeError"), popped.buf,
                    remaining - consume)
        ELSE result("data",
                    subarray(popped.buf.data, pushed.headPtr, consume),
                    NoError, popped.buf, remaining - consume)

\* readerFromMemory: a reader over fixed data that yields it once
readerFromMemory(data) ==
    [kind |-> "memory", length |-> Len(data), data |-> data, done |-> FALSE]
\* the reader of readerFromConnLength; its remaining count is the
\* variable remainingLength
readerFromConnLength(length) ==
    [kind |-> "conn", length |-> length, data |-> <<>>, done |-> FALSE]
NoReader == [kind |-> "none", length |-> 0, data |-> <<>>, done |-> FALSE]

(***************************************************************************)
(* server: handler, response encoding                                      *)
(***************************************************************************)
HTTP_Response(code, headers, body) ==
    [code |-> code, headers |-> headers, body |-> body]
NoResponse == HTTP_Response(0, <<>>, NoReader)

handleRequest(req, body) ==
    HTTP_Response(200, <<HdrServer>>,
                  IF req.uri = StrEcho THEN body
                  ELSE readerFromMemory(StrHelloWorld))

\* headers.join('\r\n')
RECURSIVE join(_, _)
join(lines, sep) ==
    IF lines = <<>> THEN <<>>
    ELSE IF Len(lines) = 1 THEN lines[1]
    ELSE lines[1] \o sep \o join(Tail(lines), sep)

encodeHTTPResponse(resp) ==
    StrStatusPrefix \o NumberToString(resp.code) \o <<SP>> \o CRLF
        \o join(resp.headers, CRLF) \o CRLFCRLF

\* writeHttpResponse, lines 160-162: the response with its Content-Length
withContentLength(resp) ==
    HTTP_Response(resp.code,
                  Append(resp.headers,
                         StrContentLengthColon
                             \o NumberToString(resp.body.length)),
                  resp.body)

\* newConnection, lines 73-77: the response made from a caught HTTPError
errorResponse_fixedCode(e) ==
    HTTP_Response(500, <<>>, readerFromMemory(Append(e.message, LF)))
errorResponse(e) ==
    HTTP_Response(e.code, <<>>, readerFromMemory(Append(e.message, LF)))

\* ServeClient, line 119
closeAfterResponse_keepAlive(req) == FALSE
closeAfterResponse(req) == req.version = StrHttp10

(***************************************************************************)
(* Inputs: what a peer sends on one connection                             *)
(***************************************************************************)
MaxBody == 3

BodyBytes == <<"a", "b", "c", "d", "e", "f", "g", "h">>
Body(n) == SubSeq(BodyBytes, 1, n)

RECURSIVE HeaderLines(_)
HeaderLines(hs) ==
    IF hs = <<>> THEN <<>> ELSE hs[1] \o CRLF \o HeaderLines(Tail(hs))

Request(method, target, version, headers, body) ==
    method \o <<SP>> \o target \o <<SP>> \o version \o CRLF
        \o HeaderLines(headers) \o CRLF \o body

ContentLengthLine(text) == KeyContentLength \o <<":", SP>> \o text
ChunkedLine == KeyTransferEncoding \o <<":", SP>> \o StrChunked
ChunkedLineTight == KeyTransferEncoding \o <<":">> \o StrChunked

\* requests with a declared body, complete on the wire
BodyRequests ==
    {Request(StrPOST, t, v, <<ContentLengthLine(NumberToString(n))>>, Body(n)) :
        t \in {StrEcho, StrOther}, v \in {StrHttp11, StrHttp10}, n \in 1..MaxBody}

HeaderVariants ==
    {<<>>,
     <<ContentLengthLine(<<"0">>)>>,
     <<ContentLengthLine(<<"-", "1">>)>>,
     <<ContentLengthLine(<<"a", "b", "c">>)>>,
     <<ContentLengthLine(<<"3", "a">>)>>,
     <<ChunkedLine>>,
     <<ChunkedLineTight>>,
     <<ContentLengthLine(<<"0">>), ChunkedLine>>}

BodilessRequests ==
    {Request(m, StrOther, StrHttp11, h, <<>>) :
        m \in {StrGET, StrHEAD, StrPOST}, h \in HeaderVariants}
    \cup {Request(m, StrOther, StrHttp11, <<ContentLengthLine(<<"3">>)>>, Body(3)) :
            m \in {StrGET, StrHEAD}}
    \cup {Request(StrGET, StrOther, StrHttp10, <<>>, <<>>)}

MalformedRequests ==
    {Request(StrGET, StrOther, <<"H", "T", "T", "P", "/", "1", ".", "x">>, <<>>, <<>>),
     Request(<<"g", "e", "t">>, StrOther, StrHttp11, <<>>, <<>>),
     Request(StrGET, <<"x">>, StrHttp11, <<>>, <<>>),
     StrGET \o <<SP>> \o StrOther \o CRLFCRLF}

\* what may follow a request with a body on the same connection
Tails ==
    {<<>>,
     Request(StrGET, StrOther, StrHttp11, <<>>, <<>>),
     Request(StrPOST, StrEcho, StrHttp11, <<ContentLengthLine(<<"2">>)>>,
             <<"y", "z">>)}

Streams ==
    {r \o t : r \in BodyRequests, t \in Tails}
        \cup BodilessRequests \cup MalformedRequests

(***************************************************************************)
(* State of one connection                                                 *)
(***************************************************************************)
VARIABLES
    stream,            \* all bytes the peer intends to send
    rcvd,              \* how many of them soRead has delivered
    eof,               \* the peer has closed its side
    buf,               \* ServeClient's DynBuf
    pc,                \* position of newConnection/ServeClient
    phase,             \* "serve": inside ServeClient; "error": in the catch
    msg,               \* the request being served
    reqBody,           \* its body reader
    remainingLength,   \* the reader's remaining byte count
    res,               \* the response being written
    chunk,             \* body chunk pulled and not yet written
    err,               \* the exception caught by newConnection
    resps,             \* responses written to the socket so far
    framed,            \* number of messages cutMessage has returned
    handled,           \* number of handleRequest calls
    bodyStart,         \* stream offset of the byte after the framed header
    writeFailed        \* a soWrite has failed

vars == <<stream, rcvd, eof, buf, pc, phase, msg, reqBody, remainingLength,
          res, chunk, err, resps, framed, handled, bodyStart, writeFailed>>

Init ==
    /\ stream \in Streams
    /\ rcvd = 0
    /\ eof = FALSE
    /\ buf = DynBuf(Alloc(0), 0, 0)
    /\ pc = "frame"
    /\ phase = "serve"
    /\ msg = NoRequest
    /\ reqBody = NoReader
    /\ remainingLength = 0
    /\ res = NoResponse
    /\ chunk = <<>>
    /\ err = NoError
    /\ resps = <<>>
    /\ framed = 0
    /\ handled = 0
    /\ bodyStart = 0
    /\ writeFailed = FALSE

(***************************************************************************)
(* tcpconn: the transport                                                  *)
(***************************************************************************)
\* soRead: the next chunk, any non-empty prefix of what the peer has yet to
\* deliver, or a zero-length buffer once the peer has closed (which it may
\* do at any time)
soRead ==
    IF eof \/ rcvd = Len(stream) THEN {<<>>}
    ELSE {SubSeq(stream, rcvd + 1, rcvd + k) : k \in 1..(Len(stream) - rcvd)}
            \cup {<<>>}

Delivered(data) ==
    /\ rcvd' = rcvd + Len(data)
    /\ eof' = (eof \/ data = <<>>)

\* soWrite: completes once the bytes are flushed, or fails
soWrite == BOOLEAN

(***************************************************************************)
(* newConnection / ServeClient                                             *)
(***************************************************************************)
\* an exception leaves the current try block: from ServeClient into the
\* catch of newConnection, from the catch block (writeErr) to finally
Throw(e) ==
    IF phase = "serve" THEN pc' = "catch" /\ err' = e
    ELSE pc' = "finally" /\ err' = err

\* ServeClient line 97
Frame ==
    /\ pc = "frame"
    /\ \E lax \in BOOLEAN :
        LET r == cutMessage(buf, lax) IN
        /\ buf' = r.buf
        /\ IF r.kind = "null"
           THEN pc' = "read" /\ UNCHANGED <<msg, err, framed, bodyStart>>
           ELSE IF r.kind = "msg"
           THEN /\ pc' = "have"
                /\ msg' = r.msg
                /\ framed' = framed + 1
                /\ bodyStart' = rcvd - r.buf.length
                /\ UNCHANGED err
           ELSE Throw(r.err) /\ UNCHANGED <<msg, framed, bodyStart>>
    /\ UNCHANGED <<stream, rcvd, eof, phase, reqBody, remainingLength, res,
                   chunk, resps, handled, writeFailed>>

\* ServeClient lines 98-112
Recv_eofAlwaysGraceful ==
    /\ pc = "read"
    /\ \E data \in soRead :
        /\ Delivered(data)
        /\ buf' = bufPush(buf, data)
        /\ IF data = <<>>
           THEN pc' = "finally" /\ UNCHANGED err
           ELSE pc' = "frame" /\ UNCHANGED err
    /\ UNCHANGED <<stream, phase, msg, reqBody, remainingLength, res, chunk,
                   resps, framed, handled, bodyStart, writeFailed>>

Recv ==
    /\ pc = "read"
    /\ \E data \in soRead :
        /\ Delivered(data)
        /\ buf' = bufPush(buf, data)
        /\ IF data = <<>> /\ buf'.length = 0
           THEN pc' = "finally" /\ UNCHANGED err
           ELSE IF data = <<>>
           THEN Throw(HTTPError(400, MsgUnexpectedEOF))
           ELSE pc' = "frame" /\ UNCHANGED err
    /\ UNCHANGED <<stream, phase, msg, reqBody, remainingLength, res, chunk,
                   resps, framed, handled, bodyStart, writeFailed>>

\* ServeClient lines 115-116
Have ==
    /\ pc = "have"
    /\ LET r == readerFromReq(msg) IN
        IF r.err # NoError
        THEN /\ Throw(r.err)
             /\ UNCHANGED <<reqBody, remainingLength, res, handled>>
        ELSE /\ reqBody' = readerFromConnLength(r.length)
             /\ remainingLength' = r.length
             /\ res' = handleRequest(msg, reqBody')
             /\ handled' = handled + 1
             /\ pc' = "writeHead"
             /\ UNCHANGED err
    /\ UNCHANGED <<stream, rcvd, eof, buf, phase, msg, chunk, resps, framed,
                   bodyStart, writeFailed>>

\* writeHttpResponse lines 156-164
WriteHead ==
    /\ pc = "writeHead"
    /\ IF res.body.length < 0
       THEN /\ Throw(HTTPError(501, MsgUnknownLength))
            /\ UNCHANGED <<res, resps, writeFailed>>
       ELSE /\ res' = withContentLength(res)
            /\ \E ok \in soWrite :
                IF ok
                THEN /\ resps' = Append(resps,
                                    [code |-> res.code,
                                     length |-> res.body.length,
                                     head |-> encodeHTTPResponse(res'),
                                     body |-> <<>>,
                                     phase |-> phase])
                     /\ pc' = "pull"
                     /\ UNCHANGED <<err, writeFailed>>
                ELSE /\ Throw(OtherError("IOError"))
                     /\ writeFailed' = TRUE
                     /\ UNCHANGED resps
    /\ UNCHANGED <<stream, rcvd, eof, buf, phase, msg, reqBody,
                   remainingLength, chunk, framed, handled, bodyStart>>

\* where control goes when writeHttpResponse returns: ServeClient lines
\* 119-123, or the end of the catch block
AfterResponse ==
    IF phase = "error" \/ closeAfterResponse(msg) THEN "finally" ELSE "drain"

\* writeHttpResponse line 167: one pull on the response body
Pull ==
    /\ pc = "pull"
    /\ IF res.body.kind = "memory"
       THEN /\ IF res.body.done
               THEN pc' = AfterResponse /\ UNCHANGED <<res, chunk>>
               ELSE /\ res' = [res EXCEPT !.body.done = TRUE]
                    /\ chunk' = res.body.data
                    /\ pc' = IF res.body.data = <<>> THEN AfterResponse
                             ELSE "write"
            /\ UNCHANGED <<rcvd, eof, buf, remainingLength, err>>
       ELSE \E lax \in BOOLEAN :
            \E data \in (IF needsRead(buf, remainingLength) THEN soRead
                         ELSE {<<>>}) :
               LET r == readConn(buf, remainingLength, data, lax) IN
               /\ IF needsRead(buf, remainingLength) THEN Delivered(data)
                  ELSE UNCHANGED <<rcvd, eof>>
               /\ buf' = r.buf
               /\ remainingLength' = r.remaining
               /\ IF r.kind = "throw"
                  THEN Throw(r.err) /\ UNCHANGED chunk
                  ELSE /\ chunk' = r.data
                       /\ pc' = IF r.data = <<>> THEN AfterResponse
                                ELSE "write"
                       /\ UNCHANGED err
               /\ UNCHANGED res
    /\ UNCHANGED <<stream, phase, msg, reqBody, resps, framed, handled,
                   bodyStart, writeFailed>>

\* writeHttpResponse line 171
WriteChunk ==
    /\ pc = "write"
    /\ \E ok \in soWrite :
        IF ok
        THEN /\ resps' = [resps EXCEPT ![Len(resps)].body = @ \o chunk]
             /\ pc' = "pull"
             /\ UNCHANGED <<err, writeFailed>>
        ELSE /\ Throw(OtherError("IOError"))
             /\ writeFailed' = TRUE
             /\ UNCHANGED resps
    /\ UNCHANGED <<stream, rcvd, eof, buf, phase, msg, reqBody,
                   remainingLength, res, chunk, framed, handled, bodyStart>>

\* ServeClient lines 123-128: one pull of the drain loop
Drain ==
    /\ pc = "drain"
    /\ \E lax \in BOOLEAN :
       \E data \in (IF needsRead(buf, remainingLength) THEN soRead
                    ELSE {<<>>}) :
          LET r == readConn(buf, remainingLength, data, lax) IN
          /\ IF needsRead(buf, remainingLength) THEN Delivered(data)
             ELSE UNCHANGED <<rcvd, eof>>
          /\ buf' = r.buf
          /\ remainingLength' = r.remaining
          /\ IF r.kind = "throw" THEN Throw(r.err)
             ELSE /\ pc' = IF r.data = <<>> THEN "frame" ELSE "drain"
                  /\ UNCHANGED err
    /\ UNCHANGED <<stream, phase, msg, reqBody, res, chunk, resps, framed,
                   handled, bodyStart, writeFailed>>

\* newConnection lines 69-77
Catch ==
    /\ pc = "catch"
    /\ IF err.kind = "HTTPError"
       THEN /\ res' = errorResponse(err)
            /\ phase' = "error"
            /\ pc' = "writeHead"
       ELSE pc' = "finally" /\ UNCHANGED <<res, phase>>
    /\ UNCHANGED <<stream, rcvd, eof, buf, msg, reqBody, remainingLength,
                   chunk, err, resps, framed, handled, bodyStart, writeFailed>>

\* newConnection lines 84-86
Finally ==
    /\ pc = "finally"
    /\ pc' = "closed"
    /\ UNCHANGED <<stream, rcvd, eof, buf, phase, msg, reqBody,
                   remainingLength, res, chunk, err, resps, framed, handled,
                   bodyStart, writeFailed>>

Next ==
    \/ Frame
    \/ Recv
    \/ Have
    \/ WriteHead
    \/ Pull
    \/ WriteChunk
    \/ Drain
    \/ Catch
    \/ Finally

Spec == Init /\ [][Next]_vars

(***************************************************************************)
(* A connection whose peer has sent close to kMaxHeaderLength bytes with   *)
(* no terminator: the state after ServeClient's first soRead returned them *)
(* in one chunk, with up to CapTail more bytes to come.                    *)
(***************************************************************************)
CapSpan == 4
CapTail == 3

Junk(n) == [i \in 1..n |-> "x"]

InitCap ==
    /\ \E n \in (kMaxHeaderLength - CapSpan)..kMaxHeaderLength :
       \E t \in 0..CapTail :
          /\ stream = Junk(n + t)
          /\ rcvd = n
          /\ buf = bufPush(DynBuf(Alloc(0), 0, 0), Junk(n))
    /\ eof = FALSE
    /\ pc = "frame"
    /\ phase = "serve"
    /\ msg = NoRequest
    /\ reqBody = NoReader
    /\ remainingLength = 0
    /\ res = NoResponse
    /\ chunk = <<>>
    /\ err = NoError
    /\ resps = <<>>
    /\ framed = 0
    /\ handled = 0
    /\ bodyStart = 0
    /\ writeFailed = FALSE

NextCap ==
    \/ Frame
    \/ Recv
    \/ WriteHead
    \/ Pull
    \/ WriteChunk
    \/ Catch
    \/ Finally

SpecCap == InitCap /\ [][NextCap]_vars

(***************************************************************************)
(* A DynBuf on its own: bufPush and bufPop called in any order on a fresh  *)
(* buffer, each pop for at most buf.length bytes as cutMessage and the     *)
(* body reader issue them.  stream holds the bytes to push, rcvd how many  *)
(* of them have been pushed.                                               *)
(***************************************************************************)
MaxPushed == 34

Letters == <<
    "a", "b", "c", "d", "e", "f", "g", "h", "i", "j", "k", "l", "m",
    "n", "o", "p", "q", "r", "s", "t", "u", "v", "w", "x", "y", "z",
    "0", "1", "2", "3", "4", "5", "6", "7", "8", "9", "_" >>

Ramp(n) == [i \in 1..n |-> Letters[((i - 1) % Len(Letters)) + 1]]

InitBuf ==
    /\ stream = Ramp(MaxPushed)
    /\ rcvd = 0
    /\ buf = DynBuf(Alloc(0), 0, 0)
    /\ pc = "dynbuf"
    /\ eof = FALSE
    /\ phase = "serve"
    /\ msg = NoRequest
    /\ reqBody = NoReader
    /\ remainingLength = 0
    /\ res = NoResponse
    /\ chunk = <<>>
    /\ err = NoError
    /\ resps = <<>>
    /\ framed = 0
    /\ handled = 0
    /\ bodyStart = 0
    /\ writeFailed = FALSE

\* bufPush(buf, data) with the next k bytes
PushBytes ==
    /\ pc = "dynbuf"
    /\ \E k \in 1..(Len(stream) - rcvd) :
        /\ buf' = bufPush(buf, SubSeq(stream, rcvd + 1, rcvd + k))
        /\ rcvd' = rcvd + k
    /\ UNCHANGED <<stream, eof, pc, phase, msg, reqBody, remainingLength,
                   res, chunk, err, resps, framed, handled, bodyStart,
                   writeFailed>>

\* bufPop(buf, n); chunk keeps the bytes the caller sliced off before it
PopBytes ==
    /\ pc = "dynbuf"
    /\ \E n \in 1..buf.length : \E lax \in BOOLEAN :
        LET popped == bufPop(buf, n, lax)
        IN  /\ buf' = popped.buf
            /\ chunk' = subarray(buf.data, buf.headPtr, buf.headPtr + n)
            /\ IF popped.fault
               THEN pc' = "fault" /\ err' = OtherError("RangeError")
               ELSE UNCHANGED <<pc, err>>
    /\ UNCHANGED <<stream, rcvd, eof, phase, msg, reqBody, remainingLength,
                   res, resps, framed, handled, bodyStart, writeFailed>>

NextBuf ==
    \/ PushBytes
    \/ PopBytes

SpecBuf == InitBuf /\ [][NextBuf]_vars

(***************************************************************************)
(* Properties                                                              *)
(***************************************************************************)
LastResp == resps[Len(resps)]

\* the header lines of a request, read independently of fieldGet's callers
HasField(req, key) == fieldGet(req.headers, key).found
FieldText(req, key) == Trim(fieldGet(req.headers, key).value)
IsDecimal(text) == text # <<>> /\ \A i \in 1..Len(text) : IsDigit(text[i])
DeclaredLength(req) == DigitPrefixValue(FieldText(req, KeyContentLength), 0)
PositiveLength(req) ==
    /\ HasField(req, KeyContentLength)
    /\ IsDecimal(FieldText(req, KeyContentLength))
    /\ DeclaredLength(req) > 0
IsGetOrHead(req) == req.method \in {StrGET, StrHEAD}
\* the write loop of writeHttpResponse ends without an exception
ResponseDone == pc = "pull" /\ pc' \notin {"pull", "write", "catch"}

\* C1: a POST /echo request with Content-Length n > 0 whose n body bytes the
\* transport delivers, in whatever chunks, is answered by one response with
\* status 200, Content-Length n and a body equal to the request body.
C1_EchoReturnsBody ==
    (/\ framed = 1 /\ handled = 1 /\ phase = "serve"
     /\ msg.method = StrPOST /\ msg.uri = StrEcho
     /\ pc \in {"drain", "finally"} /\ err = NoError /\ ~eof)
    => /\ Len(resps) = 1
       /\ resps[1].code = 200
       /\ resps[1].length = reqBody.length
       /\ resps[1].body =
              SubSeq(stream, bodyStart + 1, bodyStart + reqBody.length)

\* C2: GET with a target other than /echo and neither Content-Length nor
\* Transfer-Encoding is handled: status 200, the placeholder body, and no
\* error response.
C2_PlainGetServed ==
    (/\ framed = 1 /\ pc = "closed" /\ ~writeFailed
     /\ msg.method = StrGET /\ msg.uri # StrEcho
     /\ ~HasField(msg, KeyContentLength)
     /\ ~HasField(msg, KeyTransferEncoding))
    => /\ handled = 1
       /\ Len(resps) = 1
       /\ resps[1].code = 200
       /\ resps[1].body = StrHelloWorld
       /\ resps[1].phase = "serve"

\* C3: the framer is not called for the next message until the body reader
\* of the served request has removed exactly its n declared bytes
\* (remaining = 0), so that framing resumes at the byte after the body.
C3_FramerResumesAfterBody ==
    (pc = "frame" /\ framed >= 1)
    => /\ remainingLength = 0
       /\ framed = 1 => rcvd - buf.length = bodyStart + reqBody.length

\* C4: once the response to an HTTP/1.0 request has been written the
\* connection only closes: one response for the request, no further
\* framing, reading or writing, whatever is buffered or still in flight.
C4_Http10ClosesAfterOneResponse ==
    [][/\ (ResponseDone /\ phase = "serve" /\ msg.version = StrHttp10)
            => (pc' = "finally" /\ Len(resps') = handled')
       /\ (pc \in {"finally", "closed"})
            => /\ pc' = "closed"
               /\ resps' = resps /\ framed' = framed /\ handled' = handled
               /\ rcvd' = rcvd /\ buf' = buf]_vars

C4_Witness ==
    /\ pc = "closed" /\ phase = "serve" /\ err = NoError
    /\ msg.version = StrHttp10 /\ handled = 1 /\ framed = 1
    /\ Len(resps) = 1 /\ resps[1].code = 200
    /\ buf.length > 0 /\ rcvd < Len(stream)

\* C5: when the peer closes after a complete header declaring
\* Content-Length 3 and only 2 body bytes, the connection ends with a 400
\* unexpected-EOF error.
C5_ShortBodyIs400 ==
    (/\ framed = 1 /\ handled = 1 /\ reqBody.length = 3
     /\ eof /\ rcvd = bodyStart + 2
     /\ pc = "closed" /\ ~writeFailed)
    => (err.kind = "HTTPError" /\ err.code = 400)

\* C6: an HTTPError raised in the serve loop is converted, once, into one
\* error response carrying the error's code and its message as a line of
\* plain text; the serve loop is not resumed, a failed write of that
\* response is swallowed, and the connection closes: until the socket is
\* closed a step is enabled and every step moves the catch block forward.
ErrorBody == Append(err.message, LF)
IsPrefix(s, t) == Len(s) <= Len(t) /\ s = SubSeq(t, 1, Len(s))
C6_Safety ==
    /\ \A i \in 1..Len(resps) :
          resps[i].phase = "error"
          => /\ i = Len(resps)
             /\ err.kind = "HTTPError"
             /\ resps[i].code = err.code
             /\ resps[i].length = Len(ErrorBody)
             /\ IsPrefix(resps[i].body, ErrorBody)
    /\ phase = "error"
          => /\ pc \in {"writeHead", "pull", "write", "finally", "closed"}
             /\ err.kind = "HTTPError"
    /\ (err.kind = "HTTPError" /\ pc # "closed") => ENABLED Next
    /\ (err.kind = "HTTPError" /\ pc \in {"finally", "closed"})
          => /\ phase = "error"
             /\ ~writeFailed
                  => /\ Len(resps) >= 1
                     /\ LastResp.phase = "error"
                     /\ LastResp.body = ErrorBody
\* position of the catch block on its way to the close of the socket
C6_Rank ==
    CASE pc = "catch" -> 0
      [] pc = "writeHead" -> 1
      [] pc = "pull" /\ ~res.body.done -> 2
      [] pc = "write" -> 3
      [] pc = "pull" /\ res.body.done -> 4
      [] pc = "finally" -> 5
      [] OTHER -> 6
C6_NoResume ==
    /\ phase = "error"
         => /\ phase' = "error" /\ err' = err
            /\ framed' = framed /\ handled' = handled
            /\ rcvd' = rcvd /\ buf' = buf
    /\ err.kind = "HTTPError" => C6_Rank' > C6_Rank
C6_ErrorConvertedOnceThenClosed ==
    /\ []C6_Safety
    /\ [][C6_NoResume]_vars

C6_Witness ==
    /\ pc = "closed" /\ phase = "error" /\ writeFailed
    /\ err.kind = "HTTPError" /\ err.code = 400
    /\ Len(resps) = 2 /\ resps[1].phase = "serve" /\ resps[2].phase = "error"

\* C7: with no terminator in the buffer the framer fails with status 413
\* once more than 8192 bytes have accumulated, and reports "incomplete"
\* with the buffer untouched at 8192 bytes or fewer.
NoTerminator == indexOf(view(buf), CRLFCRLF) < 0
C7_HeaderCap413 ==
    [][(pc = "frame" /\ NoTerminator)
        => IF buf.length > 8192
           THEN pc' = "catch" /\ err'.kind = "HTTPError" /\ err'.code = 413
           ELSE pc' = "read" /\ buf' = buf /\ err' = err]_vars

\* C8: GET or HEAD with a positive Content-Length fails with 400 in the
\* derivation of the body reader: the handler is not invoked, nothing is
\* written, and no byte leaves the buffer or the transport.
C8_GetWithBodyIs400 ==
    [][(pc = "have" /\ IsGetOrHead(msg) /\ PositiveLength(msg))
        => /\ pc' = "catch"
           /\ err'.kind = "HTTPError" /\ err'.code = 400
           /\ handled' = handled /\ resps' = resps
           /\ buf' = buf /\ rcvd' = rcvd]_vars

C8_Witness ==
    /\ pc = "catch" /\ framed = 1 /\ handled = 0
    /\ msg.method = StrGET /\ PositiveLength(msg)
    /\ err = HTTPError(400, MsgBodyNotAllowed)
    /\ view(buf) = Body(3) /\ resps = <<>>

\* C9: a Content-Length field whose value is not a non-negative decimal
\* integer fails the derivation of the body reader with 400, whatever the
\* method.
C9_BadContentLengthIs400 ==
    [][(/\ pc = "have"
        /\ HasField(msg, KeyContentLength)
        /\ ~IsDecimal(FieldText(msg, KeyContentLength)))
        => (pc' = "catch" /\ err'.kind = "HTTPError" /\ err'.code = 400)]_vars

\* C10: a request whose method permits a body, with a Transfer-Encoding:
\* chunked header and no positive Content-Length, is answered by a 501
\* error response and never reaches the handler.
IsChunkedRequest(req) ==
    /\ HasField(req, KeyTransferEncoding)
    /\ FieldText(req, KeyTransferEncoding) = StrChunked
NoPositiveLength(req) ==
    \/ ~HasField(req, KeyContentLength)
    \/ /\ IsDecimal(FieldText(req, KeyContentLength))
       /\ DeclaredLength(req) = 0
C10_ChunkedIs501 ==
    (/\ framed >= 1 /\ pc # "have"
     /\ ~IsGetOrHead(msg) /\ IsChunkedRequest(msg) /\ NoPositiveLength(msg))
    => /\ err.kind = "HTTPError" /\ err.code = 501
       /\ handled = framed - 1
       /\ (pc = "closed" /\ ~writeFailed)
            => /\ LastResp.code = 501 /\ LastResp.phase = "error"
               /\ LastResp.body = ErrorBody

C10_Witness ==
    /\ pc = "closed" /\ ~writeFailed /\ handled = 0
    /\ msg.method = StrPOST /\ IsChunkedRequest(msg)
    /\ fieldGet(msg.headers, KeyTransferEncoding).value = <<SP>> \o StrChunked
    /\ Len(resps) = 1 /\ resps[1].code = 501

\* C11: for a well-formed header block the framer and parser return the
\* three tokens of the request line and exactly the raw header lines, in
\* order and without the empty line of the terminator, so that encoding
\* the head again gives back the block; exactly the block is consumed.
C11_HeadRoundTrip ==
    (pc = "have" /\ framed = 1)
    => /\ bodyStart = indexOf(stream, CRLFCRLF) + 4
       /\ view(buf) = SubSeq(stream, bodyStart + 1, rcvd)
       /\ Request(msg.method, msg.uri, msg.version, msg.headers, <<>>)
              = SubSeq(stream, 1, bodyStart)

\* C12: while a message is awaited, a zero-length read with nothing
\* unconsumed in the buffer ends the connection without error and without
\* an error response; with unconsumed bytes it raises 400 unexpected EOF;
\* either way the transport is not read again.
ZeroLengthRecv == pc = "read" /\ pc' # "read" /\ rcvd' = rcvd
C12_EofWhileAwaiting ==
    [][/\ ZeroLengthRecv
            => /\ eof'
               /\ IF buf.length = 0
                  THEN pc' = "finally" /\ err' = NoError /\ phase' = "serve"
                  ELSE /\ pc' = "catch"
                       /\ err'.kind = "HTTPError" /\ err'.code = 400
                       /\ err'.message = MsgUnexpectedEOF
               /\ resps' = resps /\ buf'.length = buf.length
       /\ eof => /\ rcvd' = rcvd
                 /\ pc' \notin {"frame", "read", "have", "drain"}
                 /\ pc' = "pull" => res'.body.kind = "memory"]_vars

C12_WitnessGraceful ==
    /\ pc = "closed" /\ eof /\ err = NoError /\ phase = "serve"
    /\ framed = 1 /\ handled = 1 /\ buf.length = 0
    /\ Len(resps) = 1 /\ msg.version = StrHttp11

C12_Witness ==
    /\ pc = "closed" /\ eof /\ framed = 0 /\ buf.length > 0
    /\ err = HTTPError(400, MsgUnexpectedEOF)
    /\ Len(resps) = 1 /\ resps[1].code = 400

\* C13: in every state of the connection's buffer reached by the pushes
\* and pops of the framer and the body streamer, the live window lies
\* inside the storage (headPtr + length <= capacity) and holds exactly the
\* bytes received and not yet consumed, in order.
C13_WindowInsideStorage ==
    /\ buf.headPtr + buf.length <= Len(buf.data)
    /\ buf.length <= rcvd
    /\ view(buf) = SubSeq(stream, rcvd - buf.length + 1, rcvd)

\* C14: after any pushes on a fresh buffer totalling L bytes, one pop of
\* M <= L bytes leaves as live window the pushed bytes from offset M on,
\* with length L - M.
FirstPop == buf.length = rcvd /\ buf'.length < buf.length
C14_PopAfterPushes ==
    [][FirstPop
         => LET M == buf.length - buf'.length
            IN  /\ pc' = "dynbuf"
                /\ buf'.length = rcvd - M
                /\ view(buf') = SubSeq(stream, M + 1, rcvd)
                /\ chunk' = SubSeq(stream, 1, M)]_vars

C14_Witness ==
    /\ pc = "dynbuf" /\ rcvd > MinCapacity /\ buf.headPtr = 0
    /\ buf.length > 0 /\ buf.length < rcvd
    /\ Len(chunk) = rcvd - buf.length

\* C15: a pull on the bounded body reader with bytes remaining and bytes
\* at hand (after at most one transport read) returns exactly the first
\* k = min(remaining, buffered) bytes of the live window, removes them and
\* lowers the remaining count by k, and k > 0; with nothing remaining it
\* returns the end of the body and leaves buffer and transport alone.
ConnPull == pc = "pull" /\ res.body.kind = "conn" /\ pc' # "pull"
C15_PullReturnsWindowPrefix ==
    [][ConnPull
         => LET window == IF buf.length > 0 THEN view(buf)
                          ELSE SubSeq(stream, rcvd + 1, rcvd')
                k == Min(remainingLength, Len(window))
            IN  IF remainingLength = 0
                THEN /\ pc' \in {"drain", "finally"}
                     /\ buf' = buf /\ rcvd' = rcvd /\ eof' = eof
                ELSE (buf.length > 0 \/ rcvd' > rcvd)
                     => /\ pc' = "write"
                        /\ k > 0
                        /\ chunk' = SubSeq(window, 1, k)
                        /\ remainingLength' = remainingLength - k
                        /\ buf'.length = Len(window) - k
                        /\ view(buf') = SubSeq(window, k + 1, Len(window))]_vars

\* C16: a bufPop that leaves the consumed offset above half the capacity
\* compacts in the same call: headPtr becomes 0, the capacity is unchanged,
\* length drops by the bytes popped and the live window keeps its bytes in
\* order; a bufPop that leaves the offset at or below half the capacity
\* moves no storage byte.
PopStep == pc = "dynbuf" /\ buf'.length < buf.length
C16_PopCompacts ==
    [][PopStep
         => LET n == buf.length - buf'.length IN
            IF 2 * (buf.headPtr + n) > Len(buf.data)
            THEN /\ pc' = "dynbuf"
                 /\ buf'.headPtr = 0
                 /\ Len(buf'.data) = Len(buf.data)
                 /\ view(buf') = subarray(view(buf), n, buf.length)
            ELSE /\ buf'.data = buf.data
                 /\ buf'.headPtr = buf.headPtr + n]_vars

\* C17: a bufPush that needs more storage allocates the smallest power of
\* two that is at least the required size and at least 32, which at least
\* doubles the capacity, and copies the live window to offset 0; the
\* capacity never decreases.
RECURSIVE PowerOfTwoFrom(_, _)
PowerOfTwoFrom(cap, required) ==
    IF cap < required THEN PowerOfTwoFrom(cap * 2, required) ELSE cap
C17_GrowthToPowerOfTwo ==
    [][/\ Len(buf'.data) >= Len(buf.data)
       /\ (pc = "dynbuf" /\ rcvd' > rcvd /\ Len(buf.data) < buf.length + rcvd' - rcvd)
            => /\ Len(buf'.data) = PowerOfTwoFrom(32, buf.length + rcvd' - rcvd)
               /\ Len(buf'.data) >= 2 * Len(buf.data)
               /\ buf'.headPtr = 0
               /\ SubSeq(buf'.data, 1, buf.length) = view(buf)]_vars

\* C18: a GET or HEAD request that carries the header line
\* "Transfer-Encoding: chunked", written with the usual space after the
\* colon, fails the derivation of its body reader with status 400: it is
\* neither answered with 501 nor dispatched to the handler.
CarriesChunkedLine(req) ==
    \E i \in 1..Len(req.headers) : req.headers[i] = ChunkedLine
C18_ChunkedGetIs400 ==
    [][(pc = "have" /\ IsGetOrHead(msg) /\ CarriesChunkedLine(msg))
        => /\ pc' = "catch"
           /\ err'.kind = "HTTPError" /\ err'.code = 400
           /\ handled' = handled]_vars

\* C19: the bounded body reader reads from the transport only inside a
\* pull made with remaining > 0 and no unconsumed byte in the shared
\* buffer, and only once in that pull: what the pull read is what it
\* returned plus what it left in the buffer.  With bytes buffered a pull
\* does not touch the transport.
ReaderPull ==
    \/ pc = "pull" /\ res.body.kind = "conn"
    \/ pc = "drain"
C19_ReadsOnlyWhenEmpty ==
    [][/\ (ReaderPull /\ (rcvd' # rcvd \/ eof' # eof))
            => /\ remainingLength > 0
               /\ buf.length = 0
               /\ rcvd' - rcvd
                     = buf'.length + (remainingLength - remainingLength')
       /\ (pc \in {"writeHead", "write", "have", "catch", "finally"}
            \/ (pc = "pull" /\ res.body.kind = "memory"))
            => (rcvd' = rcvd /\ eof' = eof)]_vars

C19_Witness ==
    /\ pc = "write" /\ res.body.kind = "conn" /\ framed = 1
    /\ remainingLength > 0 /\ buf.length = 0
    /\ chunk # <<>> /\ rcvd = bodyStart + Len(chunk)

\* C20: the bytes written on a connection always form a sequence of
\* complete responses: every head has exactly one Content-Length line, its
\* value the declared length of the body, and exactly that many body bytes
\* follow it before another head is written or the connection is closed;
\* no error response follows a head whose body is not written in full.
ContentLengthValues(head) ==
    LET lines == splitLines(head)
    IN  { SubSeq(lines[j], Len(StrContentLengthColon) + 1, Len(lines[j])) :
            j \in { k \in 1..Len(lines) :
                      IsPrefix(StrContentLengthColon, lines[k]) } }
ContentLengthCount(head) ==
    LET lines == splitLines(head)
    IN  Cardinality({ k \in 1..Len(lines) :
                        IsPrefix(StrContentLengthColon, lines[k]) })
C20_CompleteResponses ==
    ~writeFailed
    => \A i \in 1..Len(resps) :
          /\ ContentLengthCount(resps[i].head) = 1
          /\ ContentLengthValues(resps[i].head)
                = {NumberToString(resps[i].length)}
          /\ SubSeq(resps[i].head, Len(resps[i].head) - 3,
                    Len(resps[i].head)) = CRLFCRLF
          /\ Len(resps[i].body) <= resps[i].length
          /\ (i < Len(resps) \/ pc = "closed")
                => Len(resps[i].body) = resps[i].length
====
